---------------------------- MODULE Spec2Model ----------------------------
(***************************************************************************)
(* A model of scripts/export_all_cookies.py: the Chromium cookie-value     *)
(* decoder, the Safari binarycookies page parser, the three timestamp      *)
(* conversions, the per-store export functions and main's aggregation.     *)
(*                                                                         *)
(* Python bytes are sequences of 0..255, Python str values are sequences   *)
(* of code points.  A call that can raise is modelled by an outcome        *)
(* record [raised, val, exc].                                              *)
(***************************************************************************)
EXTENDS Integers, Sequences, FiniteSets, TLC

VARIABLES
    SYSTEM,     \* platform.system(), fixed for one run of the program
    how,        \* decoder harness: how the blob under test was built
    enc,        \* decoder harness: encrypted_value
    key,        \* decoder harness: key
    dpapi,      \* decoder harness: what win32crypt.CryptUnprotectData would do
    ret,        \* decoder harness: outcome of decrypt_cookie_value
    dpc,        \* decoder harness: "call" before the call, "done" after
    pdesc,      \* page harness: how the page under test was built
    page,       \* page harness: data, the bytes of one page
    pres,       \* page harness: outcome of parse_safari_page
    ppc,        \* page harness: "call" before the call, "done" after
    sdesc,      \* container harness: how the Cookies.binarycookies file was built
    sfile,      \* container harness: the file as shutil.copy2 finds it
    sres,       \* container harness: outcome of export_safari_cookies
    spc,        \* container harness: "call" before the call, "done" after
    browsers,   \* main: the display names discover_chromium_browsers returned
    env,        \* main: os.environ, as far as TEMP goes
    pcm,        \* main: where main is
    bi,         \* main: index of the next browser of the loop
    all_cookies,\* main: all_cookies
    exported,   \* main: the rows handed to the CSV writer
    files,      \* the temporary files that exist
    returned,   \* history: what each export call returned, in call order
    lastIn,     \* history: what the store read by the latest call held
    jobs,       \* workers: the store each of the two workers exports
    wpc,        \* workers: the step each worker is at
    wres,       \* workers: what each worker returns
    overlapped  \* history: a worker stepped while the other held its temporary file

decVars == <<how, enc, key, dpapi, ret, dpc>>
pageVars == <<pdesc, page, pres, ppc>>
safVars == <<sdesc, sfile, sres, spc>>
mainVars == <<browsers, env, pcm, bi, all_cookies, exported, files, returned, lastIn>>
parVars == <<jobs, wpc, wres, overlapped>>
vars == <<SYSTEM, decVars, pageVars, safVars, mainVars, parVars>>

-----------------------------------------------------------------------------
(* Bounds of the model *)

\* longest plaintext (in characters) an envelope is built from
MaxPlainLen == 17

(* Program constants *)

\* AES block size: the IV length and the padding guard
BlockSize == 16
\* length of the prefix Chromium puts before the cookie value
PrefixLen == 32
\* nonce and tag lengths of the v11 layout
NonceLen == 12
TagLen == 16

-----------------------------------------------------------------------------
(* Python values *)

Min(a, b) == IF a < b THEN a ELSE b
Max(a, b) == IF a > b THEN a ELSE b

Ret(v) == [raised |-> FALSE, val |-> v, exc |-> ""]
Raise(e) == [raised |-> TRUE, val |-> <<>>, exc |-> e]

\* a slice index as Python normalises it: negative counts from the end,
\* then clamped to 0..len
NormIdx(i, n) == IF i < 0 THEN Max(i + n, 0) ELSE Min(i, n)

\* s[lo:hi]
Slice(s, lo, hi) ==
    LET a == NormIdx(lo, Len(s))
        b == NormIdx(hi, Len(s))
    IN IF a >= b THEN <<>> ELSE SubSeq(s, a + 1, b)

\* s[lo:]
SliceFrom(s, lo) == Slice(s, lo, Len(s))

RECURSIVE XorBits(_, _, _)
XorBits(a, b, n) ==
    IF n = 0 THEN 0
    ELSE ((a + b) % 2) + 2 * XorBits(a \div 2, b \div 2, n - 1)

Xor(a, b) == XorBits(a, b, 8)

RECURSIVE Pow2(_)
Pow2(n) == IF n = 0 THEN 1 ELSE 2 * Pow2(n - 1)

RECURSIVE SumSeq(_)
SumSeq(s) == IF s = <<>> THEN 0 ELSE (s[1] + SumSeq(Tail(s))) % 256

\* U+FFFD, what errors='replace' substitutes
Replacement == 65533

\* is b a continuation byte allowed after lead byte `lead` at position k (2..4)
ContOk(lead, k, b) ==
    IF k = 2 /\ lead = 224 THEN b \in 160..191
    ELSE IF k = 2 /\ lead = 237 THEN b \in 128..159
    ELSE IF k = 2 /\ lead = 240 THEN b \in 144..191
    ELSE IF k = 2 /\ lead = 244 THEN b \in 128..143
    ELSE b \in 128..191

\* number of continuation bytes the lead byte announces, -1 for an invalid lead
Utf8Need(b) ==
    IF b < 128 THEN 0
    ELSE IF b \in 194..223 THEN 1
    ELSE IF b \in 224..239 THEN 2
    ELSE IF b \in 240..244 THEN 3
    ELSE -1

RECURSIVE ContRun(_, _, _, _)
\* how many of the next `need` bytes of s (after the lead) are valid continuations
ContRun(s, lead, k, need) ==
    IF k - 1 > need \/ k > Len(s) \/ ~ContOk(lead, k, s[k]) THEN 0
    ELSE 1 + ContRun(s, lead, k + 1, need)

Utf8Point(s, need) ==
    IF need = 1 THEN (s[1] - 192) * 64 + (s[2] - 128)
    ELSE IF need = 2 THEN (s[1] - 224) * 4096 + (s[2] - 128) * 64 + (s[3] - 128)
    ELSE (s[1] - 240) * 262144 + (s[2] - 128) * 4096 + (s[3] - 128) * 64 + (s[4] - 128)

RECURSIVE Utf8Scan(_)
\* bytes -> code points, -1 standing for each maximal invalid part
Utf8Scan(s) ==
    IF s = <<>> THEN <<>>
    ELSE LET need == Utf8Need(s[1]) IN
         IF need = 0 THEN <<s[1]>> \o Utf8Scan(Tail(s))
         ELSE IF need = -1 THEN <<-1>> \o Utf8Scan(Tail(s))
         ELSE LET got == ContRun(s, s[1], 2, need) IN
              IF got = need
              THEN <<Utf8Point(s, need)>> \o Utf8Scan(SliceFrom(s, need + 1))
              ELSE <<-1>> \o Utf8Scan(SliceFrom(s, got + 1))

\* bytes.decode('utf-8', errors='replace')
DecodeReplace(s) ==
    LET p == Utf8Scan(s)
    IN [i \in 1..Len(p) |-> IF p[i] = -1 THEN Replacement ELSE p[i]]

\* bytes.decode('utf-8'): raises on the first invalid part
DecodeStrict(s) ==
    LET p == Utf8Scan(s)
    IN IF \E i \in 1..Len(p) : p[i] = -1 THEN Raise("UnicodeDecodeError") ELSE Ret(p)

RECURSIVE Utf8Encode(_)
\* str.encode('utf-8') for code points below 65536
Utf8Encode(t) ==
    IF t = <<>> THEN <<>>
    ELSE LET c == t[1] IN
         (IF c < 128 THEN <<c>>
          ELSE IF c < 2048 THEN <<192 + (c \div 64), 128 + (c % 64)>>
          ELSE <<224 + (c \div 4096), 128 + ((c \div 64) % 64), 128 + (c % 64)>>)
         \o Utf8Encode(Tail(t))

-----------------------------------------------------------------------------
(* Crypto.Cipher.AES, as far as the decoder depends on it: a keyed block    *)
(* permutation chained in CBC mode, and an authenticated stream mode.       *)

AesKeyOk(k) == Len(k) \in {16, 24, 32}

KeyByte(k, i) == k[((i - 1) % Len(k)) + 1]

\* the block permutation on one block: rotate by one position, add the key
AesEncBlock(k, x) == [j \in 1..BlockSize |-> (x[(j % BlockSize) + 1] + KeyByte(k, j) + j) % 256]

\* its inverse
AesDecBlock(k, c) ==
    [p \in 1..BlockSize |->
        LET j == ((p - 2) % BlockSize) + 1
        IN (c[j] - KeyByte(k, j) - j) % 256]

RECURSIVE AesCbcEncryptFrom(_, _, _)
AesCbcEncryptFrom(k, prev, pt) ==
    IF pt = <<>> THEN <<>>
    ELSE LET x == [j \in 1..BlockSize |-> Xor(pt[j], prev[j])]
             c == AesEncBlock(k, x)
         IN c \o AesCbcEncryptFrom(k, c, SliceFrom(pt, BlockSize))

\* AES.new(k, MODE_CBC, iv).encrypt(pt), pt a whole number of blocks
AesCbcEncrypt(k, iv, pt) == AesCbcEncryptFrom(k, iv, pt)

\* AES.new(k, MODE_CBC, iv).decrypt(ct), ct a whole number of blocks
AesCbcDecrypt(k, iv, ct) ==
    [i \in 1..Len(ct) |->
        LET b == (i - 1) \div BlockSize
            j == ((i - 1) % BlockSize) + 1
            blk == SubSeq(ct, b * BlockSize + 1, (b + 1) * BlockSize)
            prev == IF b = 0 THEN iv[j] ELSE ct[i - BlockSize]
        IN Xor(AesDecBlock(k, blk)[j], prev)]

GcmStream(k, nonce, i) == (KeyByte(k, i) + KeyByte(nonce, i) + 7 * i) % 256

\* the stream part of GCM: the same operation encrypts and decrypts
GcmCrypt(k, nonce, data) == [i \in 1..Len(data) |-> Xor(data[i], GcmStream(k, nonce, i))]

\* the 16-byte authentication tag over nonce and ciphertext
GcmTag(k, nonce, ct) ==
    LET w == [i \in 1..Len(ct) |-> (ct[i] * (i + 1)) % 256]
    IN [j \in 1..TagLen |-> (KeyByte(k, j) + SumSeq(nonce) + SumSeq(w) + 3 * Len(ct) + j) % 256]

-----------------------------------------------------------------------------
(* decrypt_cookie_value *)

Marker10 == <<118, 49, 48>>
Marker11 == <<118, 49, 49>>

\* iv = b' ' * 16
SpaceIV == [i \in 1..BlockSize |-> 32]

\* "Remove PKCS7 padding": decrypted[:-padding_len] when padding_len < 16
StripPadding(decrypted) ==
    LET padding_len == decrypted[Len(decrypted)]
    IN IF padding_len < BlockSize THEN Slice(decrypted, 0, 0 - padding_len) ELSE decrypted

\* "Skip 32-byte prefix"
SkipPrefix(decrypted) ==
    IF Len(decrypted) > PrefixLen THEN SliceFrom(decrypted, PrefixLen) ELSE decrypted

\* the v10 branch of the try block
V10Branch(encrypted_value, k) ==
    IF ~AesKeyOk(k) THEN Raise("ValueError")
    ELSE LET ct == SliceFrom(encrypted_value, 3) IN
         IF Len(ct) % BlockSize # 0 THEN Raise("ValueError")
         ELSE LET decrypted == AesCbcDecrypt(k, SpaceIV, ct) IN
              IF decrypted = <<>> THEN Raise("IndexError")
              ELSE Ret(DecodeReplace(SkipPrefix(StripPadding(decrypted))))

\* cipher.decrypt_and_verify(ciphertext, tag)
GcmDecryptAndVerify(k, nonce, ciphertext, tag) ==
    IF GcmTag(k, nonce, ciphertext) # tag THEN Raise("ValueError")
    ELSE Ret(GcmCrypt(k, nonce, ciphertext))

\* the v11 branch of the try block
V11Branch(encrypted_value, k) ==
    LET nonce == Slice(encrypted_value, 3, 3 + NonceLen)
        ciphertext == Slice(encrypted_value, 3 + NonceLen, 0 - TagLen)
        tag == SliceFrom(encrypted_value, 0 - TagLen)
    IN IF ~AesKeyOk(k) \/ nonce = <<>> THEN Raise("ValueError")
       ELSE LET r == GcmDecryptAndVerify(k, nonce, ciphertext, tag) IN
            IF r.raised THEN r ELSE Ret(DecodeReplace(r.val))

\* the inner try of the unmarked branch: import win32crypt, unprotect, strict decode
DpapiAttempt(dp) ==
    IF dp.kind = "ok" THEN DecodeStrict(dp.data) ELSE Raise(dp.kind)

\* the unmarked branch of the try block
LegacyBranch(encrypted_value, sys, dp) ==
    IF sys = "Windows" /\ ~DpapiAttempt(dp).raised
    THEN DpapiAttempt(dp)
    ELSE Ret(DecodeReplace(encrypted_value))

\* the body of the try block
TryBody(encrypted_value, k, sys, dp) ==
    IF Slice(encrypted_value, 0, 3) = Marker10 THEN V10Branch(encrypted_value, k)
    ELSE IF Slice(encrypted_value, 0, 3) = Marker11 THEN V11Branch(encrypted_value, k)
    ELSE LegacyBranch(encrypted_value, sys, dp)

\* the function as a bug would have it: a failure of the body reaches the caller
decrypt_cookie_value_uncaught(encrypted_value, k, sys, dp) ==
    IF encrypted_value = <<>> \/ k = <<>> THEN Ret(<<>>)
    ELSE TryBody(encrypted_value, k, sys, dp)

decrypt_cookie_value(encrypted_value, k, sys, dp) ==
    IF encrypted_value = <<>> \/ k = <<>> THEN Ret(<<>>)
    ELSE LET r == TryBody(encrypted_value, k, sys, dp)
         IN IF r.raised THEN Ret(<<>>) ELSE r

-----------------------------------------------------------------------------
(* datetime, timedelta and strftime('%Y-%m-%d %H:%M:%S') *)

\* "Session" and "Unknown"
StrSession == <<83, 101, 115, 115, 105, 111, 110>>
StrUnknown == <<85, 110, 107, 110, 111, 119, 110>>

\* days from 1970-01-01 to the civil date y-m-d
DaysFromCivil(y, m, d) ==
    LET yy == IF m <= 2 THEN y - 1 ELSE y
        era == yy \div 400
        yoe == yy - era * 400
        mp == IF m > 2 THEN m - 3 ELSE m + 9
        doy == (153 * mp + 2) \div 5 + d - 1
        doe == yoe * 365 + yoe \div 4 - yoe \div 100 + doy
    IN era * 146097 + doe - 719468

\* the civil date <<y, m, d>> of a day number
CivilFromDays(z0) ==
    LET z == z0 + 719468
        era == z \div 146097
        doe == z - era * 146097
        yoe == (doe - doe \div 1460 + doe \div 36524 - doe \div 146096) \div 365
        doy == doe - (365 * yoe + yoe \div 4 - yoe \div 100)
        mp == (5 * doy + 2) \div 153
        d == doy - (153 * mp + 2) \div 5 + 1
        m == IF mp < 10 THEN mp + 3 ELSE mp - 9
        y == yoe + era * 400 + (IF m <= 2 THEN 1 ELSE 0)
    IN <<y, m, d>>

\* datetime.min and datetime.max as day numbers
MinDay == DaysFromCivil(1, 1, 1)
MaxDay == DaysFromCivil(9999, 12, 31)

\* the largest day count a timedelta holds
MaxDeltaDays == 999999999

SecondsPerDay == 86400

\* datetime(epoch) + timedelta(days=d, seconds=s), 0 <= s < 86400
DatetimePlus(epochDay, d, s) ==
    IF d > MaxDeltaDays \/ d < 0 - MaxDeltaDays THEN Raise("OverflowError")
    ELSE IF epochDay + d < MinDay \/ epochDay + d > MaxDay THEN Raise("OverflowError")
    ELSE Ret(<<epochDay + d, s>>)

Digit(n) == 48 + n

Pad2(n) == <<Digit(n \div 10), Digit(n % 10)>>

Pad4(n) == <<Digit(n \div 1000), Digit((n \div 100) % 10), Digit((n \div 10) % 10), Digit(n % 10)>>

\* dt.strftime('%Y-%m-%d %H:%M:%S') of the moment <<day, second of day>>
Strftime(dt) ==
    LET c == CivilFromDays(dt[1])
        s == dt[2]
    IN Pad4(c[1]) \o <<45>> \o Pad2(c[2]) \o <<45>> \o Pad2(c[3]) \o <<32>>
       \o Pad2(s \div 3600) \o <<58>> \o Pad2((s \div 60) % 60) \o <<58>> \o Pad2(s % 60)

\* an integer column value t = (d * 86400 + s) * 10^6 + us, or NULL
IntVal(d, s, us) == [kind |-> "int", d |-> d, s |-> s, us |-> us]
NullVal == [kind |-> "none", d |-> 0, s |-> 0, us |-> 0]

IsZero(t) == t.kind = "int" /\ t.d = 0 /\ t.s = 0 /\ t.us = 0

\* Python truth of a column value
Truthy(t) == t.kind = "int" /\ ~IsZero(t)

\* chrome_timestamp_to_datetime as a bug would have it: no try around the conversion
chrome_timestamp_to_datetime_untried(timestamp) ==
    IF IsZero(timestamp) THEN Ret(StrSession)
    ELSE IF timestamp.kind # "int" THEN Raise("TypeError")
    ELSE LET dt == DatetimePlus(DaysFromCivil(1601, 1, 1), timestamp.d, timestamp.s)
         IN IF dt.raised THEN dt ELSE Ret(Strftime(dt.val))

chrome_timestamp_to_datetime(timestamp) ==
    LET r == chrome_timestamp_to_datetime_untried(timestamp)
    IN IF r.raised THEN StrUnknown ELSE r.val

\* datetime.fromtimestamp(expiry) in a zone tz seconds east of UTC
FromTimestamp(expiry, tz) ==
    IF expiry.kind # "int" THEN Raise("TypeError")
    ELSE LET total == expiry.s + tz
             day == expiry.d + (total \div SecondsPerDay)
         IN IF day < MinDay \/ day > MaxDay THEN Raise("OverflowError")
            ELSE Ret(<<day, total % SecondsPerDay>>)

\* exp_str of export_firefox_cookies
FirefoxExpiry(expiry, tz) ==
    IF ~Truthy(expiry) THEN Ret(StrSession)
    ELSE LET dt == FromTimestamp(expiry, tz)
         IN IF dt.raised THEN dt ELSE Ret(Strftime(dt.val))

\* struct.unpack('<d', b): the fields of an IEEE-754 double
DoubleSign(b) == b[8] \div 128
DoubleExp(b) == (b[8] % 128) * 16 + (b[7] \div 16)

\* bit k (1 = most significant) of the 53-bit significand of a normal double
SignificandBit(b, k) ==
    IF k = 1 THEN 1
    ELSE IF k <= 5 THEN ((b[7] % 16) \div Pow2(5 - k)) % 2
    ELSE LET q == k - 6 IN (b[6 - (q \div 8)] \div Pow2(7 - (q % 8))) % 2

MantissaZero(b) == (b[7] % 16) = 0 /\ \A i \in 1..6 : b[i] = 0

DoubleIsNaN(b) == DoubleExp(b) = 2047 /\ ~MantissaZero(b)
DoubleIsInf(b) == DoubleExp(b) = 2047 /\ MantissaZero(b)
DoubleIsZero(b) == DoubleExp(b) = 0 /\ MantissaZero(b)

\* exp > 0
DoublePositive(b) == DoubleSign(b) = 0 /\ ~DoubleIsNaN(b) /\ ~DoubleIsZero(b)

RECURSIVE WholeSeconds(_, _, _, _)
\* the integer part of a double with k leading significand bits before the
\* point, as <<days, seconds of day>>, accumulated bit by bit
WholeSeconds(b, k, n, acc) ==
    IF k > n THEN acc
    ELSE LET s2 == 2 * acc[2] + SignificandBit(b, k)
         IN WholeSeconds(b, k + 1, n,
                <<2 * acc[1] + (s2 \div SecondsPerDay), s2 % SecondsPerDay>>)

\* the largest binary exponent of a double that can still be added to
\* datetime(2001,1,1): 2^38 seconds later is past the year 9999
MaxWholeExp == 37

\* timedelta(seconds=exp) for a positive double, as <<days, seconds of day>>
\* (the fraction of a second, which strftime drops, is left out)
TimedeltaSeconds(b) ==
    LET e == DoubleExp(b) - 1023 IN
    IF DoubleIsInf(b) \/ e > MaxWholeExp THEN Raise("OverflowError")
    ELSE IF e < 0 THEN Ret(<<0, 0>>)
    ELSE Ret(WholeSeconds(b, 1, e + 1, <<0, 0>>))

\* exp_str of parse_safari_page
SafariExpiry(b) ==
    IF ~DoublePositive(b) THEN Ret(StrSession)
    ELSE LET td == TimedeltaSeconds(b) IN
         IF td.raised THEN td
         ELSE LET dt == DatetimePlus(DaysFromCivil(2001, 1, 1), td.val[1], td.val[2])
              IN IF dt.raised THEN dt ELSE Ret(Strftime(dt.val))

-----------------------------------------------------------------------------
(* parse_safari_page *)

Cookie(browser, domain, name, value, path, expires, secure, httponly, samesite) ==
    [browser |-> browser, domain |-> domain, name |-> name, value |-> value,
     path |-> path, expires |-> expires, secure |-> secure, httponly |-> httponly,
     samesite |-> samesite]

\* 'Safari' and 'Firefox'
StrSafari == <<83, 97, 102, 97, 114, 105>>
StrFirefox == <<70, 105, 114, 101, 102, 111, 120>>

\* b'\x00\x00\x01\x00'
PageMagic == <<0, 0, 1, 0>>

\* the largest value an unsigned 32-bit field is told apart by; every larger
\* one is beyond any buffer and is kept as this one
U32Cap == 2147483647

\* struct.unpack('<I', b)[0]; struct.error when b is not 4 bytes long
UnpackU32(b) ==
    IF Len(b) # 4 THEN Raise("struct.error")
    ELSE IF b[4] >= 128 THEN Ret(U32Cap)
    ELSE Ret(b[1] + 256 * b[2] + 65536 * b[3] + 16777216 * b[4])

RECURSIVE FindNul(_, _)
\* d.find(b'\x00', o) as a 0-based index, -1 when there is none
FindNul(d, o) ==
    IF o >= Len(d) THEN -1
    ELSE IF d[o + 1] = 0 THEN o
    ELSE FindNul(d, o + 1)

\* read_str(o) over the record view d
read_str(d, o) == DecodeReplace(Slice(d, o, FindNul(d, o)))

\* the body of the try block for the record at offset off
ParseRecord(data, off) ==
    LET d == SliceFrom(data, off)
        flags == Slice(d, 8, 12)
        url_off == UnpackU32(Slice(d, 16, 20))
        name_off == UnpackU32(Slice(d, 20, 24))
        path_off == UnpackU32(Slice(d, 24, 28))
        val_off == UnpackU32(Slice(d, 28, 32))
        expb == Slice(d, 40, 48)
    IN IF Len(flags) # 4 \/ url_off.raised \/ name_off.raised \/ path_off.raised
          \/ val_off.raised \/ Len(expb) # 8
       THEN Raise("struct.error")
       ELSE LET exp_str == SafariExpiry(expb) IN
            IF exp_str.raised THEN exp_str
            ELSE Ret(Cookie(StrSafari,
                            read_str(d, url_off.val),
                            read_str(d, name_off.val),
                            read_str(d, val_off.val),
                            read_str(d, path_off.val),
                            exp_str.val,
                            flags[1] % 2 = 1,
                            (flags[1] \div 4) % 2 = 1,
                            0))

\* the offsets list: one unpack per entry the count announces
ReadOffsets(data, num) ==
    IF num > 0 /\ num > (Len(data) - 8) \div 4 THEN Raise("struct.error")
    ELSE Ret([i \in 1..num |-> UnpackU32(SubSeq(data, 8 + 4 * i - 3, 8 + 4 * i)).val])

RECURSIVE RecordLoopStopping(_, _, _)
\* the loop over the offsets as a bug would have it: a failing record ends it
RecordLoopStopping(data, offsets, i) ==
    IF i > Len(offsets) THEN <<>>
    ELSE LET r == ParseRecord(data, offsets[i])
         IN IF r.raised THEN <<>>
            ELSE <<r.val>> \o RecordLoopStopping(data, offsets, i + 1)

RECURSIVE RecordLoop(_, _, _)
\* the loop over the offsets: a failing record is skipped (except: continue)
RecordLoop(data, offsets, i) ==
    IF i > Len(offsets) THEN <<>>
    ELSE LET r == ParseRecord(data, offsets[i])
         IN (IF r.raised THEN <<>> ELSE <<r.val>>) \o RecordLoop(data, offsets, i + 1)

parse_safari_page(data) ==
    IF Slice(data, 0, 4) # PageMagic THEN Ret(<<>>)
    ELSE LET num == UnpackU32(Slice(data, 4, 8)) IN
         IF num.raised THEN num
         ELSE LET offsets == ReadOffsets(data, num.val) IN
              IF offsets.raised THEN offsets
              ELSE Ret(RecordLoop(data, offsets.val, 1))

-----------------------------------------------------------------------------
(* export_safari_cookies *)

\* b'cook'
FileMagic == <<99, 111, 111, 107>>

\* struct.unpack('>I', b)[0]
UnpackU32BE(b) ==
    IF Len(b) # 4 THEN Raise("struct.error")
    ELSE UnpackU32(<<b[4], b[3], b[2], b[1]>>)

\* f.read(n) at position pos: the bytes read
FileRead(bytes, pos, n) == Slice(bytes, pos, pos + Min(n, Len(bytes) - pos))

\* page_sizes: one 4-byte read per page the count announces
ReadPageSizes(bytes, num_pages) ==
    IF num_pages > 0 /\ num_pages > (Len(bytes) - 8) \div 4 THEN Raise("struct.error")
    ELSE Ret([i \in 1..num_pages |-> UnpackU32BE(SubSeq(bytes, 8 + 4 * i - 3, 8 + 4 * i)).val])

RECURSIVE PageLoop(_, _, _, _, _)
\* for size in page_sizes: cookies.extend(parse_safari_page(f.read(size)));
\* an exception of parse_safari_page leaves the loop with the cookies so far
PageLoop(bytes, pos, page_sizes, i, cookies) ==
    IF i > Len(page_sizes) THEN cookies
    ELSE LET data == FileRead(bytes, pos, page_sizes[i])
             r == parse_safari_page(data)
         IN IF r.raised THEN cookies
            ELSE PageLoop(bytes, pos + Len(data), page_sizes, i + 1, cookies \o r.val)

\* the try block over the opened temporary file
ReadContainer(bytes) ==
    IF FileRead(bytes, 0, 4) # FileMagic THEN <<>>
    ELSE LET num_pages == UnpackU32BE(FileRead(bytes, 4, 4)) IN
         IF num_pages.raised THEN <<>>
         ELSE LET page_sizes == ReadPageSizes(bytes, num_pages.val) IN
              IF page_sizes.raised THEN <<>>
              ELSE PageLoop(bytes, 8 + 4 * num_pages.val, page_sizes.val, 1, <<>>)

\* a store file as shutil.copy2 finds it: status "ok", "denied" or "absent"
StoreFile(status, content) == [status |-> status, content |-> content]

export_safari_cookies(sys, file) ==
    IF sys # "Darwin" THEN Ret(<<>>)
    ELSE IF file.status # "ok" THEN Ret(<<>>)
    ELSE Ret(ReadContainer(file.content))

-----------------------------------------------------------------------------
(* Temporary files: a set of [path, content] pairs, one per existing file *)

FileAt(path, content) == [path |-> path, content |-> content]

Exists(fs, path) == \E f \in fs : f.path = path

\* shutil.copy2(src, path): the file at path now holds content
WriteFile(fs, path, content) == {f \in fs : f.path # path} \cup {FileAt(path, content)}

\* os.remove(path) inside try/except: pass
RemoveFile(fs, path) == {f \in fs : f.path # path}

\* the content of a database file: the cookie table it has and its rows
Db(table, rows) == [table |-> table, rows |-> rows]

\* what sqlite3.connect(path) opens: the file, or a new empty database
OpenDb(fs, path) ==
    IF Exists(fs, path) THEN (CHOOSE f \in fs : f.path = path).content
    ELSE Db("none", <<>>)

\* one row of a cookie table
Row(host, name, value, path, expiry, secure, httponly, samesite) ==
    [host |-> host, name |-> name, value |-> value, path |-> path, expiry |-> expiry,
     secure |-> secure, httponly |-> httponly, samesite |-> samesite]

-----------------------------------------------------------------------------
(* get_encryption_key *)

\* pbkdf2_hmac('sha1', password, b'saltysalt', iterations, dklen=16): a
\* deterministic 16-byte digest of password and iteration count
Pbkdf2(password, iterations) ==
    [i \in 1..16 |-> (SumSeq(password) * 7 + iterations * 3 + Len(password) + i * 11) % 256]

\* b'peanuts'
Peanuts == <<112, 101, 97, 110, 117, 116, 115>>

MacIterations == 1003
LinuxIterations == 1

\* a platform secret: whether the secret store hands one back, and its bytes
Secret(found, bytes) == [found |-> found, bytes |-> bytes]

\* None is the empty key
get_encryption_key(sys, secret) ==
    IF sys = "Darwin" THEN
        IF secret.found /\ secret.bytes # <<>> THEN Pbkdf2(secret.bytes, MacIterations) ELSE <<>>
    ELSE IF sys = "Windows" THEN
        IF secret.found THEN secret.bytes ELSE <<>>
    ELSE IF sys = "Linux" THEN
        IF secret.found THEN Pbkdf2(secret.bytes, LinuxIterations) ELSE Pbkdf2(Peanuts, LinuxIterations)
    ELSE <<>>

-----------------------------------------------------------------------------
(* export_chromium_cookies *)

\* name.replace(' ', '_')
ReplaceSpaces(name) == [i \in 1..Len(name) |-> IF name[i] = 32 THEN 95 ELSE name[i]]

\* os.environ: whether TEMP is set, and its value
Environ(set, temp) == [set |-> set, temp |-> temp]

\* a temporary path that does not depend on the browser's name
TempDbPathShared(sys, name, environ) ==
    IF sys = "Windows" THEN
        IF environ.set THEN Ret(environ.temp \o <<92>> \o <<99, 111, 111, 107, 105, 101, 115, 46, 100, 98>>)
        ELSE Raise("KeyError")
    ELSE Ret(<<47, 116, 109, 112, 47>> \o <<99, 111, 111, 107, 105, 101, 115, 95, 101, 120, 112, 111, 114, 116, 46, 100, 98>>)

\* temp_db; KeyError when the platform is Windows and TEMP is not set
TempDbPath(sys, name, environ) ==
    IF sys = "Windows" THEN
        IF environ.set THEN Ret(environ.temp \o <<92>> \o ReplaceSpaces(name) \o <<95, 99, 111, 111, 107, 105, 101, 115, 46, 100, 98>>)
        ELSE Raise("KeyError")
    ELSE Ret(<<47, 116, 109, 112, 47>> \o ReplaceSpaces(name) \o <<95, 99, 111, 111, 107, 105, 101, 115, 95, 101, 120, 112, 111, 114, 116, 46, 100, 98>>)

\* what CryptUnprotectData does with a value that DPAPI did not produce
DpapiRejects == [kind |-> "error", data |-> <<>>]

\* the cookie built from one row; fallback is the query without samesite
ChromiumCookie(name, row, k, sys, fallback) ==
    Cookie(name,
           DecodeReplace(row.host),
           DecodeReplace(row.name),
           decrypt_cookie_value(row.value, k, sys, DpapiRejects).val,
           DecodeReplace(row.path),
           chrome_timestamp_to_datetime(row.expiry),
           row.secure # 0,
           row.httponly # 0,
           IF fallback THEN 0 ELSE row.samesite)

\* the try block: connect, query (with the fallback query), one cookie per row
ReadChromiumDb(db, name, k, sys) ==
    IF db.table = "none" THEN <<>>
    ELSE [i \in 1..Len(db.rows) |->
            ChromiumCookie(name, db.rows[i], k, sys, db.table = "nosamesite")]

\* a Chromium store: whether cookie_path exists, the platform secret, and
\* the file as shutil.copy2 finds it
ChromeStore(present, secret, file) == [present |-> present, secret |-> secret, file |-> file]

\* the outcome of an export call together with the temporary files it leaves
Outcome(r, fs) == [raised |-> r.raised, val |-> r.val, exc |-> r.exc, files |-> fs]

export_chromium_cookies(name, st, sys, environ, fs) ==
    LET k == get_encryption_key(sys, st.secret)
        temp_db == TempDbPath(sys, name, environ)
    IN IF ~st.present THEN Outcome(Ret(<<>>), fs)
       ELSE IF k = <<>> THEN Outcome(Ret(<<>>), fs)
       ELSE IF temp_db.raised THEN Outcome(temp_db, fs)
       ELSE IF st.file.status # "ok" THEN Outcome(Ret(<<>>), fs)
       ELSE LET copied == WriteFile(fs, temp_db.val, st.file.content)
                cookies == ReadChromiumDb(OpenDb(copied, temp_db.val), name, k, sys)
            IN Outcome(Ret(cookies), RemoveFile(copied, temp_db.val))

-----------------------------------------------------------------------------
(* export_firefox_cookies *)

\* temp_db = "/tmp/firefox_cookies_export.db"
FirefoxTempDb == <<47, 116, 109, 112, 47, 102, 105, 114, 101, 102, 111, 120, 95, 99, 111, 111, 107, 105, 101, 115, 95, 101, 120, 112, 111, 114, 116, 46, 100, 98>>

FirefoxCookie(row, exp_str) ==
    Cookie(StrFirefox, row.host, row.name, row.value, row.path, exp_str,
           row.secure # 0, row.httponly # 0, row.samesite)

RECURSIVE FirefoxRows(_, _, _)
\* the loop over cursor.fetchall(): the first row whose expiry cannot be
\* converted raises out of the loop, the cookies before it stay appended
FirefoxRows(rows, i, tz) ==
    IF i > Len(rows) THEN <<>>
    ELSE LET e == FirefoxExpiry(rows[i].expiry, tz)
         IN IF e.raised THEN <<>>
            ELSE <<FirefoxCookie(rows[i], e.val)>> \o FirefoxRows(rows, i + 1, tz)

\* connect, query, loop: what one opened database appends
ReadFirefoxDb(db, tz) == IF db.table = "none" THEN <<>> ELSE FirefoxRows(db.rows, 1, tz)

\* a profile directory: whether it holds cookies.sqlite, and the file as copy2 finds it
Profile(hasfile, file) == [hasfile |-> hasfile, file |-> file]

RECURSIVE ProfileLoop(_, _, _, _, _)
\* for profile_dir in glob.glob(...): the cookies appended and the files left
ProfileLoop(profiles, i, tz, cookies, fs) ==
    IF i > Len(profiles) THEN Outcome(Ret(cookies), fs)
    ELSE LET pr == profiles[i] IN
         IF ~pr.hasfile THEN ProfileLoop(profiles, i + 1, tz, cookies, fs)
         ELSE IF pr.file.status # "ok"
         THEN ProfileLoop(profiles, i + 1, tz, cookies, RemoveFile(fs, FirefoxTempDb))
         ELSE LET copied == WriteFile(fs, FirefoxTempDb, pr.file.content)
                  got == ReadFirefoxDb(OpenDb(copied, FirefoxTempDb), tz)
              IN ProfileLoop(profiles, i + 1, tz, cookies \o got, RemoveFile(copied, FirefoxTempDb))

\* the Firefox installation: whether profile_base exists, and its profiles
FirefoxBase(exists, profiles) == [exists |-> exists, profiles |-> profiles]

export_firefox_cookies(base, tz, fs) ==
    IF ~base.exists THEN Outcome(Ret(<<>>), fs)
    ELSE ProfileLoop(base.profiles, 1, tz, <<>>, fs)

-----------------------------------------------------------------------------
(* Inputs of the decoder harness *)

KeyA == [i \in 1..16 |-> (i * 11 + 3) % 256]
KeyB == [i \in 1..16 |-> (i * 5 + 200) % 256]
KeyShort == <<1, 2, 3, 4, 5>>

\* the prefix Chromium puts before the value (a digest of the host in real stores)
ChromePrefix == [i \in 1..PrefixLen |-> (i * 37 + 11) % 256]

TextPattern(seed) == IF seed = 0 THEN <<97, 98, 99, 100, 101>> ELSE <<233, 8364, 122>>

\* a plaintext string of n characters
PlainText(n, seed) ==
    LET pat == TextPattern(seed) IN [i \in 1..n |-> pat[((i - 1) % Len(pat)) + 1]]

\* PKCS padding of 1..16 bytes
Pkcs7Pad(b) ==
    LET n == BlockSize - (Len(b) % BlockSize)
    IN b \o [i \in 1..n |-> n]

\* a valid v10 envelope of text under key k
V10Envelope(k, text) ==
    Marker10 \o AesCbcEncrypt(k, SpaceIV, Pkcs7Pad(ChromePrefix \o Utf8Encode(text)))

\* a buffer of m blocks whose last byte is n
RawBuffer(m, n) ==
    [i \in 1..(m * BlockSize) |-> IF i = m * BlockSize THEN n ELSE 65 + (i % 26)]

FixedNonce == [i \in 1..NonceLen |-> (i * 13) % 256]

\* a valid v11 envelope of text under key k
V11Envelope(k, text) ==
    LET ct == GcmCrypt(k, FixedNonce, Utf8Encode(text))
    IN Marker11 \o FixedNonce \o ct \o GcmTag(k, FixedNonce, ct)

\* blob with bit `bit` (0..127) of its last 16 bytes flipped
FlipTagBit(blob, bit) ==
    LET pos == Len(blob) - TagLen + 1 + (bit \div 8)
    IN [blob EXCEPT ![pos] = Xor(blob[pos], Pow2(bit % 8))]

LegacyBytes(n, seed) ==
    LET pat == IF seed = 0 THEN <<115, 101, 115>>
               ELSE IF seed = 1 THEN <<255, 97, 195>>
               ELSE <<118, 49, 50>>
    IN [i \in 1..n |-> pat[((i - 1) % Len(pat)) + 1]]

How(kind, n, seed, m) == [kind |-> kind, n |-> n, seed |-> seed, m |-> m]

HowSet ==
    {How("v10valid", n, s, 0) : n \in 0..MaxPlainLen, s \in 0..1}
    \cup {How("v10raw", n, 0, m) : n \in (0..(BlockSize + 1)) \cup {255}, m \in 1..3}
    \cup {How("v10trunc", n, 0, 0) : n \in {0, 5, 17}}
    \cup {How("v11valid", n, s, 0) : n \in 0..MaxPlainLen, s \in 0..1}
    \cup {How("v11flip", n, 0, m) : n \in 0..MaxPlainLen, m \in {0, 77, 127}}
    \cup {How("v11short", n, 0, 0) : n \in 0..(NonceLen + TagLen - 1)}
    \cup {How("legacy", n, s, 0) : n \in 0..4, s \in 0..2}

\* the blob a descriptor stands for
Blob(h) ==
    IF h.kind = "v10valid" THEN V10Envelope(KeyA, PlainText(h.n, h.seed))
    ELSE IF h.kind = "v10raw" THEN Marker10 \o AesCbcEncrypt(KeyA, SpaceIV, RawBuffer(h.m, h.n))
    ELSE IF h.kind = "v10trunc" THEN Marker10 \o [i \in 1..h.n |-> (i * 3) % 256]
    ELSE IF h.kind = "v11valid" THEN V11Envelope(KeyA, PlainText(h.n, h.seed))
    ELSE IF h.kind = "v11flip" THEN FlipTagBit(V11Envelope(KeyA, PlainText(h.n, h.seed)), h.m)
    ELSE IF h.kind = "v11short" THEN Marker11 \o [i \in 1..h.n |-> (i * 29 + 1) % 256]
    ELSE LegacyBytes(h.n, h.seed)

Systems == {"Darwin", "Windows", "Linux"}

DpapiOutcomes(sys) ==
    IF sys = "Windows"
    THEN {[kind |-> "ImportError", data |-> <<>>],
          [kind |-> "error", data |-> <<>>],
          [kind |-> "ok", data |-> <<111, 107>>],
          [kind |-> "ok", data |-> <<111, 255>>]}
    ELSE {[kind |-> "ImportError", data |-> <<>>]}

NoRet == [raised |-> FALSE, val |-> <<>>, exc |-> "pending"]

PageIdle ==
    /\ pdesc = [recs |-> <<>>, variant |-> "none", j |-> 0, past |-> 0]
    /\ page = <<>>
    /\ pres = NoRet
    /\ ppc = "idle"

SafariIdle ==
    /\ sdesc = [pages |-> <<>>, variant |-> "none"]
    /\ sfile = StoreFile("absent", <<>>)
    /\ sres = NoRet
    /\ spc = "idle"

NoInput == [kind |-> "none", readable |-> FALSE, fails |-> <<>>]

MainIdle ==
    /\ browsers = <<>> /\ env = Environ(FALSE, <<>>)
    /\ pcm = "idle" /\ bi = 1
    /\ all_cookies = <<>> /\ exported = <<>> /\ files = {}
    /\ returned = <<>> /\ lastIn = NoInput

ParIdle == jobs = <<>> /\ wpc = <<>> /\ wres = <<>> /\ overlapped = FALSE

DecryptIdle ==
    /\ how = How("none", 0, 0, 0) /\ enc = <<>> /\ key = <<>>
    /\ dpapi = [kind |-> "ImportError", data |-> <<>>]
    /\ ret = NoRet /\ dpc = "idle"

InitDecrypt ==
    /\ PageIdle /\ SafariIdle /\ MainIdle /\ ParIdle
    /\ SYSTEM \in Systems
    /\ how \in HowSet
    /\ enc = Blob(how)
    /\ key \in {KeyA, KeyB, KeyShort, <<>>}
    /\ dpapi \in DpapiOutcomes(SYSTEM)
    /\ ret = NoRet
    /\ dpc = "call"

\* one call of decrypt_cookie_value
Decrypt ==
    /\ dpc = "call"
    /\ ret' = decrypt_cookie_value(enc, key, SYSTEM, dpapi)
    /\ dpc' = "done"
    /\ UNCHANGED <<SYSTEM, how, enc, key, dpapi, pageVars, safVars, mainVars, parVars>>

NextDecrypt == Decrypt

SpecDecrypt == InitDecrypt /\ [][NextDecrypt]_vars

-----------------------------------------------------------------------------
(* Claims about decrypt_cookie_value *)

Called == dpc = "done" /\ enc # <<>> /\ key # <<>>

IsV10 == Slice(enc, 0, 3) = Marker10
IsV11 == Slice(enc, 0, 3) = Marker11

\* a step of the v10 branch raises: AES.new, cipher.decrypt or decrypted[-1]
V10StepFails ==
    /\ IsV10
    /\ \/ ~AesKeyOk(key)
       \/ Len(enc) = 3
       \/ (Len(enc) - 3) % BlockSize # 0

\* a step of the v11 branch raises: AES.new or decrypt_and_verify
V11StepFails ==
    /\ IsV11
    /\ \/ ~AesKeyOk(key)
       \/ Len(enc) = 3
       \/ GcmTag(key, Slice(enc, 3, 3 + NonceLen), Slice(enc, 3 + NonceLen, 0 - TagLen))
            # SliceFrom(enc, 0 - TagLen)

\* the platform unprotect attempt of the unmarked branch raises
DpapiStepFails ==
    /\ ~IsV10 /\ ~IsV11
    /\ SYSTEM = "Windows"
    /\ (dpapi.kind # "ok" \/ DecodeStrict(dpapi.data).raised)

\* C1 as stated: decrypt_cookie_value never lets an exception escape, it
\* returns a string for every blob and key, and whenever any decoding step
\* fails the returned string is the empty value.
C1_AnyFailureGivesEmpty ==
    Called =>
        /\ ~ret.raised
        /\ (V10StepFails \/ V11StepFails \/ DpapiStepFails) => ret.val = <<>>

\* C1 amended: decrypt_cookie_value never lets an exception escape and
\* returns a string for every blob and key; whenever a step of the v10 or
\* v11 branch fails the returned string is empty; when the platform
\* unprotect attempt of the unmarked branch fails the returned string is the
\* lossy text of the raw blob.
C1_NoEscape ==
    /\ ~ret.raised
    /\ Called =>
        /\ (V10StepFails \/ V11StepFails) => ret.val = <<>>
        /\ DpapiStepFails => ret.val = DecodeReplace(enc)

\* C1 witness: a valid v11 envelope of a non-empty text with one tag bit
\* flipped was decoded under its own key, and the result is empty.
C1_Witness ==
    /\ dpc = "done"
    /\ how.kind = "v11flip" /\ how.n > 0 /\ key = KeyA
    /\ V11StepFails
    /\ ~ret.raised /\ ret.val = <<>>

\* C2 as stated: a valid v10 envelope built from any plaintext (the empty
\* one and lengths that are a multiple of 16 included) decodes under the
\* same key to exactly that plaintext.
C2_V10RoundTrip ==
    (dpc = "done" /\ how.kind = "v10valid" /\ key = KeyA) =>
        (~ret.raised /\ ret.val = PlainText(how.n, how.seed))

\* the buffer the v10 branch decrypts
DecryptedBuffer == AesCbcDecrypt(key, SpaceIV, SliceFrom(enc, 3))

\* the buffer with exactly n trailing bytes removed
DropLast(d, n) == SubSeq(d, 1, Len(d) - n)

\* C10 as stated: with n the last decrypted byte, exactly n trailing bytes
\* are removed when n is in 0..15 (n = 0 included), nothing is removed when
\* n >= 16, and then the leading 32 bytes are dropped iff more than 32 remain.
C10_PaddingThenPrefix ==
    (Called /\ IsV10 /\ ~V10StepFails) =>
        LET d == DecryptedBuffer
            n == d[Len(d)]
            a == IF n < 16 THEN DropLast(d, n) ELSE d
            b == IF Len(a) > 32 THEN SubSeq(a, 33, Len(a)) ELSE a
        IN ret.val = DecodeReplace(b)

-----------------------------------------------------------------------------
(* Inputs of the page harness: pages in the binarycookies layout *)

\* most records of one page
MaxRecs == 3

PackU32(n) == <<n % 256, (n \div 256) % 256, (n \div 65536) % 256, (n \div 16777216) % 256>>

\* struct.pack('<d', x) for the expiry values used
DoubleBytes(x) ==
    IF x = "8e8" THEN <<0, 0, 0, 0, 132, 215, 199, 65>>
    ELSE IF x = "2^38" THEN <<0, 0, 0, 0, 0, 0, 80, 66>>
    ELSE IF x = "inf" THEN <<0, 0, 0, 0, 0, 0, 240, 127>>
    ELSE <<0, 0, 0, 0, 0, 0, 0, 0>>

RecordHeaderLen == 56

\* the fields a record kind stands for
RecordFields(kind) ==
    IF kind = "plain" THEN
        [flags |-> 5, domain |-> <<46, 97, 46, 99, 111>>, name |-> <<115, 105, 100>>,
         path |-> <<47>>, value |-> <<120, 49>>, exp |-> "8e8", term |-> TRUE, far |-> FALSE]
    ELSE IF kind = "session" THEN
        [flags |-> 0, domain |-> <<98, 46, 111>>, name |-> <<116>>,
         path |-> <<47, 112>>, value |-> <<195, 169>>, exp |-> "0", term |-> TRUE, far |-> FALSE]
    ELSE IF kind = "overflow" THEN
        [flags |-> 1, domain |-> <<99, 46, 105, 111>>, name |-> <<111, 118>>,
         path |-> <<47>>, value |-> <<118>>, exp |-> "2^38", term |-> TRUE, far |-> FALSE]
    ELSE IF kind = "infinite" THEN
        [flags |-> 4, domain |-> <<100, 46, 105, 111>>, name |-> <<105, 110>>,
         path |-> <<47>>, value |-> <<119>>, exp |-> "inf", term |-> TRUE, far |-> FALSE]
    ELSE IF kind = "noterm" THEN
        [flags |-> 4, domain |-> <<101, 46, 100, 101>>, name |-> <<110, 116>>,
         path |-> <<47>>, value |-> <<111, 112, 101, 110>>, exp |-> "8e8", term |-> FALSE, far |-> FALSE]
    ELSE
        [flags |-> 0, domain |-> <<102, 46, 102, 114>>, name |-> <<102>>,
         path |-> <<47>>, value |-> <<122>>, exp |-> "0", term |-> TRUE, far |-> TRUE]

RecordKinds == {"plain", "session", "overflow", "infinite", "noterm", "farstring"}

\* one record: the 56-byte header, then domain, name, path and value
RecordBytes(kind) ==
    LET f == RecordFields(kind)
        dom == f.domain \o <<0>>
        nam == f.name \o <<0>>
        pth == f.path \o <<0>>
        val == IF f.term THEN f.value \o <<0>> ELSE f.value
        url_off == RecordHeaderLen
        name_off == url_off + Len(dom)
        path_off == name_off + Len(nam)
        val_off == IF f.far THEN 60000 ELSE path_off + Len(pth)
        size == RecordHeaderLen + Len(dom) + Len(nam) + Len(pth) + Len(val)
    IN PackU32(size) \o PackU32(0) \o PackU32(f.flags) \o PackU32(0)
       \o PackU32(url_off) \o PackU32(name_off) \o PackU32(path_off) \o PackU32(val_off)
       \o <<0, 0, 0, 0, 0, 0, 0, 0>> \o DoubleBytes(f.exp) \o DoubleBytes("8e8")
       \o dom \o nam \o pth \o val

RECURSIVE BodyBytes(_)
BodyBytes(recs) == IF recs = <<>> THEN <<>> ELSE RecordBytes(recs[1]) \o BodyBytes(Tail(recs))

\* where record i starts in a page whose table has n entries
RecordStart(recs, i, n) == 8 + 4 * n + 4 + Len(BodyBytes(SubSeq(recs, 1, i - 1)))

\* an offset beyond the page of length len
PastEnd(len, past) ==
    IF past = 0 THEN PackU32(len)
    ELSE IF past = 1 THEN PackU32(len + 1000)
    ELSE <<255, 255, 255, 255>>

RECURSIVE TableBytes(_, _, _, _, _)
\* the offset table: entry k points at record entries[k], or past the end when entries[k] = 0
TableBytes(recs, entries, k, len, past) ==
    IF k > Len(entries) THEN <<>>
    ELSE (IF entries[k] = 0 THEN PastEnd(len, past)
          ELSE PackU32(RecordStart(recs, entries[k], Len(entries))))
         \o TableBytes(recs, entries, k + 1, len, past)

\* a page holding the records recs, indexed by the table entries
PageOf(recs, entries, past) ==
    LET len == 8 + 4 * Len(entries) + 4 + Len(BodyBytes(recs))
    IN PageMagic \o PackU32(Len(entries)) \o TableBytes(recs, entries, 1, len, past)
       \o <<0, 0, 0, 0>> \o BodyBytes(recs)

AllEntries(recs) == [i \in 1..Len(recs) |-> i]

\* the table with entry j pointing past the end
CorruptEntries(recs, j) == [i \in 1..Len(recs) |-> IF i = j THEN 0 ELSE i]

\* the table with entry j absent
WithoutEntry(recs, j) == [i \in 1..(Len(recs) - 1) |-> IF i < j THEN i ELSE i + 1]

GoodPage(recs) == PageOf(recs, AllEntries(recs), 0)

\* the page a descriptor stands for
BuildPage(pd) ==
    IF pd.variant = "ok" THEN GoodPage(pd.recs)
    ELSE IF pd.variant = "badmagic" THEN <<0, 0, 1, 1>> \o SliceFrom(GoodPage(pd.recs), 4)
    ELSE IF pd.variant = "trunctable" THEN Slice(GoodPage(pd.recs), 0, 8 + 4 * (Len(pd.recs) - 1))
    ELSE IF pd.variant = "countbig" THEN
        PageMagic \o <<255, 255, 255, 255>> \o SliceFrom(GoodPage(pd.recs), 8)
    ELSE PageOf(pd.recs, CorruptEntries(pd.recs, pd.j), pd.past)

RecSeqs(n) == UNION {[1..k -> RecordKinds] : k \in 0..n}

PageDesc(recs, variant, j, past) == [recs |-> recs, variant |-> variant, j |-> j, past |-> past]

PageDescs ==
    {PageDesc(r, v, 0, 0) : r \in RecSeqs(MaxRecs), v \in {"ok", "badmagic", "countbig"}}
    \cup {PageDesc(r, "trunctable", 0, 0) : r \in RecSeqs(MaxRecs) \ {<<>>}}
    \cup UNION {{PageDesc(r, "corrupt", j, p) : j \in 1..Len(r), p \in 0..2} : r \in RecSeqs(MaxRecs)}

InitPage ==
    /\ SYSTEM = "Darwin"
    /\ DecryptIdle /\ SafariIdle /\ MainIdle /\ ParIdle
    /\ pdesc \in PageDescs
    /\ page = BuildPage(pdesc)
    /\ pres = NoRet
    /\ ppc = "call"

\* one call of parse_safari_page
ParsePage ==
    /\ ppc = "call"
    /\ pres' = parse_safari_page(page)
    /\ ppc' = "done"
    /\ UNCHANGED <<SYSTEM, decVars, pdesc, page, safVars, mainVars, parVars>>

NextPage == ParsePage

SpecPage == InitPage /\ [][NextPage]_vars

-----------------------------------------------------------------------------
(* Claims about parse_safari_page *)

\* the same records indexed by a table from which entry j is absent
PageWithoutEntry(pd, j) == PageOf(pd.recs, WithoutEntry(pd.recs, j), 0)

\* C3: when exactly one entry of a complete offset table points past the end
\* of the page, the returned list is the list returned for the page without
\* that entry: the other records with the same fields in the same order, and
\* no record for the corrupted entry.
C3_CorruptOffsetSkipped ==
    (ppc = "done" /\ pdesc.variant = "corrupt") =>
        /\ ~pres.raised
        /\ pres.val = parse_safari_page(PageWithoutEntry(pdesc, pdesc.j)).val

\* C3 witness: the middle entry of three pointed past the end and the two
\* records around it were returned.
C3_Witness ==
    /\ ppc = "done" /\ pdesc.variant = "corrupt"
    /\ pdesc.recs = <<"plain", "session", "plain">> /\ pdesc.j = 2
    /\ ~pres.raised /\ Len(pres.val) = 2
    /\ pres.val[1].name = RecordFields("plain").name
    /\ pres.val[2].name = RecordFields("plain").name

\* the value field of the last record of the page has no NUL byte between its
\* offset and the end of the page buffer
LastValueUnterminated ==
    /\ pdesc.variant = "ok" /\ pdesc.recs # <<>>
    /\ LET n == Len(pdesc.recs)
           d == SliceFrom(page, RecordStart(pdesc.recs, n, n))
           o == UnpackU32(Slice(d, 28, 32)).val
       IN o < Len(d) /\ FindNul(d, o) = -1

\* C4 as stated: a record one of whose string fields has no NUL byte between
\* its offset and the end of the page buffer is skipped; what is returned is
\* what the page returns without that record's entry.
C4_UnterminatedSkipped ==
    (ppc = "done" /\ LastValueUnterminated) =>
        /\ ~pres.raised
        /\ pres.val = parse_safari_page(PageWithoutEntry(pdesc, Len(pdesc.recs))).val

-----------------------------------------------------------------------------
(* Inputs of the container harness: Cookies.binarycookies files *)

\* most pages of one file
MaxPages == 3

PackU32BE(n) == <<(n \div 16777216) % 256, (n \div 65536) % 256, (n \div 256) % 256, n % 256>>

\* the pages a file is made of
FilePageDescs ==
    {PageDesc(<<"plain">>, "ok", 0, 0),
     PageDesc(<<"session", "plain">>, "ok", 0, 0),
     PageDesc(<<"plain">>, "badmagic", 0, 0),
     PageDesc(<<"plain", "session">>, "trunctable", 0, 0),
     PageDesc(<<"session">>, "countbig", 0, 0)}

RECURSIVE SizeTable(_)
SizeTable(pds) ==
    IF pds = <<>> THEN <<>> ELSE PackU32BE(Len(BuildPage(pds[1]))) \o SizeTable(Tail(pds))

RECURSIVE PagesBytes(_)
PagesBytes(pds) == IF pds = <<>> THEN <<>> ELSE BuildPage(pds[1]) \o PagesBytes(Tail(pds))

\* the 8 bytes that close a file
FileTrailer == <<0, 0, 0, 0, 7, 23, 32, 5>>

\* a file with valid magic, a complete page-size table and the pages pds
ContainerOf(pds) ==
    FileMagic \o PackU32BE(Len(pds)) \o SizeTable(pds) \o PagesBytes(pds) \o FileTrailer

\* the file a descriptor stands for
BuildFile(fd) ==
    IF fd.variant = "ok" THEN ContainerOf(fd.pages)
    ELSE IF fd.variant = "badmagic" THEN <<99, 111, 111, 108>> \o SliceFrom(ContainerOf(fd.pages), 4)
    ELSE Slice(ContainerOf(fd.pages), 0, 6 + 4 * Len(fd.pages))

PageSeqs(n) == UNION {[1..k -> FilePageDescs] : k \in 0..n}

FileDescs == {[pages |-> ps, variant |-> v] : ps \in PageSeqs(MaxPages), v \in {"ok", "badmagic", "shorttable"}}

InitSafari ==
    /\ SYSTEM \in Systems
    /\ DecryptIdle /\ PageIdle /\ MainIdle /\ ParIdle
    /\ sdesc \in FileDescs
    /\ \E st \in {"ok", "denied", "absent"} :
          sfile = StoreFile(st, IF st = "absent" THEN <<>> ELSE BuildFile(sdesc))
    /\ sres = NoRet
    /\ spc = "call"

\* one call of export_safari_cookies
ExportSafari ==
    /\ spc = "call"
    /\ sres' = export_safari_cookies(SYSTEM, sfile)
    /\ spc' = "done"
    /\ UNCHANGED <<SYSTEM, decVars, pageVars, sdesc, sfile, mainVars, parVars>>

NextSafari == ExportSafari

SpecSafari == InitSafari /\ [][NextSafari]_vars

-----------------------------------------------------------------------------
(* Claims about export_safari_cookies *)

WellFormed(pd) == pd.variant = "ok"

RECURSIVE WellFormedRecords(_)
\* the records of the well-formed pages of a page list, in page order
WellFormedRecords(pds) ==
    IF pds = <<>> THEN <<>>
    ELSE (IF WellFormed(pds[1]) THEN parse_safari_page(BuildPage(pds[1])).val ELSE <<>>)
         \o WellFormedRecords(Tail(pds))

\* exactly one page of the file is malformed
OneMalformedPage == Cardinality({i \in 1..Len(sdesc.pages) : ~WellFormed(sdesc.pages[i])}) = 1

\* C5 as stated: in a file with valid magic and a complete page-size table,
\* a single malformed page (wrong page magic, or a record count beyond the
\* offsets present in the page) contributes nothing and does not abort the
\* file: every well-formed page before and after it contributes all of its
\* records, in page order.
C5_MalformedPageSkipped ==
    (spc = "done" /\ SYSTEM = "Darwin" /\ sfile.status = "ok"
        /\ sdesc.variant = "ok" /\ OneMalformedPage) =>
        (~sres.raised /\ sres.val = WellFormedRecords(sdesc.pages))

-----------------------------------------------------------------------------
(* Inputs of main: the stores a run can find *)

\* most Chromium browsers discovered, most Firefox profiles
MaxBrowsers == 2
MaxProfiles == 2

\* 'Chrome' and 'Chrome Beta', two values of KNOWN_CHROMIUM_BROWSERS
NameChrome == <<67, 104, 114, 111, 109, 101>>
NameChromeBeta == <<67, 104, 114, 111, 109, 101, 32, 66, 101, 116, 97>>

BrowserNames == {NameChrome, NameChromeBeta}

BrowserLists == UNION {[1..n -> BrowserNames] : n \in 0..MaxBrowsers}

\* the password the secret store holds
StorePassword == <<112, 119>>

\* the key the macOS build of the browser encrypts with
StoreKey == Pbkdf2(StorePassword, MacIterations)

ChromeRowA ==
    Row(<<46, 97, 46, 99, 111, 109>>, <<115, 105, 100>>, V10Envelope(StoreKey, <<97, 98, 99>>), <<47>>, IntVal(155067, 82580, 0), 1, 0, 1)

\* expires_utc = 2^63 - 1
ChromeRowB ==
    Row(<<98, 46, 111, 114, 103>>, <<116>>, FlipTagBit(V11Envelope(StoreKey, <<97, 98, 99>>), 5), <<47, 112>>,
        IntVal(106751991, 14454, 775807), 0, 1, 2)

ChromeRowC ==
    Row(<<46, 97, 46, 99, 111, 109>>, <<115, 105, 100>>, <<115, 101, 115>>, <<47>>, IntVal(0, 0, 0), 0, 0, 0)

ChromeDbs ==
    {Db("full", <<ChromeRowB, ChromeRowA>>),
     Db("nosamesite", <<ChromeRowA, ChromeRowC>>),
     Db("none", <<>>)}

\* every database with the secret found; one store whose secret is not
\* found, one whose file is not there, one whose file cannot be copied
ChromeStores ==
    {ChromeStore(TRUE, Secret(TRUE, StorePassword), StoreFile("ok", db)) : db \in ChromeDbs}
    \cup {ChromeStore(TRUE, Secret(FALSE, <<>>), StoreFile("ok", Db("full", <<ChromeRowA>>))),
          ChromeStore(FALSE, Secret(TRUE, StorePassword), StoreFile("absent", Db("none", <<>>))),
          ChromeStore(TRUE, Secret(TRUE, StorePassword), StoreFile("denied", Db("full", <<ChromeRowA>>)))}

\* the Cookies.binarycookies files of a run: how copy2 finds the file, and
\* the descriptor of its content
SafariStore(status, pages, variant) == [status |-> status, fd |-> [pages |-> pages, variant |-> variant]]

SafariStores ==
    {SafariStore("absent", <<>>, "ok"),
     SafariStore("denied", <<PageDesc(<<"plain">>, "ok", 0, 0)>>, "ok"),
     SafariStore("ok", <<PageDesc(<<"plain", "session">>, "ok", 0, 0)>>, "ok"),
     SafariStore("ok", <<PageDesc(<<"overflow", "plain">>, "ok", 0, 0)>>, "ok"),
     SafariStore("ok", <<PageDesc(<<"plain">>, "ok", 0, 0)>>, "badmagic"),
     SafariStore("ok", <<PageDesc(<<"plain">>, "ok", 0, 0)>>, "shorttable"),
     SafariStore("ok", <<PageDesc(<<"session">>, "ok", 0, 0),
                         PageDesc(<<"plain", "session">>, "trunctable", 0, 0)>>, "ok")}

SafariFileOf(ss) == StoreFile(ss.status, IF ss.status = "absent" THEN <<>> ELSE BuildFile(ss.fd))

FirefoxRowA ==
    Row(<<46, 97, 46, 99, 111, 109>>, <<115, 105, 100>>, <<118>>, <<47>>, IntVal(20254, 54400, 0), 1, 0, 0)

\* expiry = 1750000000000, milliseconds stored where seconds are read
FirefoxRowB ==
    Row(<<98, 46, 111, 114, 103>>, <<116>>, <<119>>, <<47>>, IntVal(20254629, 54400, 0), 0, 1, 1)

FirefoxRowC ==
    Row(<<46, 97, 46, 99, 111, 109>>, <<115, 105, 100>>, <<120>>, <<47>>, IntVal(0, 0, 0), 0, 0, 2)

FirefoxDbs ==
    {Db("moz", <<FirefoxRowA>>),
     Db("moz", <<FirefoxRowC, FirefoxRowB, FirefoxRowA>>)}

Profiles ==
    {Profile(TRUE, StoreFile("ok", db)) : db \in FirefoxDbs}
    \cup {Profile(FALSE, StoreFile("absent", Db("none", <<>>))),
          Profile(TRUE, StoreFile("denied", Db("moz", <<FirefoxRowA>>)))}

ProfileLists == UNION {[1..n -> Profiles] : n \in 0..MaxProfiles}

FirefoxBases == {FirefoxBase(TRUE, ps) : ps \in ProfileLists} \cup {FirefoxBase(FALSE, <<>>)}

\* the offsets from UTC of the zones a run is made in
TzOffsets == {0, 19800}

Environs(sys) ==
    IF sys = "Windows" THEN {Environ(TRUE, <<67, 58, 92, 84>>), Environ(FALSE, <<>>)}
    ELSE {Environ(FALSE, <<>>)}

-----------------------------------------------------------------------------
(* What the store read by a call held: whether it can be read at all, and,
   row by row in stored order, whether the row's expiry fails to convert *)

Input(kind, readable, fails) == [kind |-> kind, readable |-> readable, fails |-> fails]

ChromiumInput(st, sys, e) ==
    LET ok == /\ st.present
              /\ get_encryption_key(sys, st.secret) # <<>>
              /\ (sys = "Windows" => e.set)
              /\ st.file.status = "ok"
              /\ st.file.content.table # "none"
        rows == st.file.content.rows
    IN Input("chromium", ok,
             IF ok THEN [i \in 1..Len(rows) |->
                            chrome_timestamp_to_datetime_untried(rows[i].expiry).raised]
             ELSE <<>>)

RECURSIVE PageKinds(_)
PageKinds(pds) == IF pds = <<>> THEN <<>> ELSE pds[1].recs \o PageKinds(Tail(pds))

SafariInput(ss) ==
    LET ok == /\ ss.status = "ok"
              /\ ss.fd.variant = "ok"
              /\ \A i \in 1..Len(ss.fd.pages) : ss.fd.pages[i].variant = "ok"
        kinds == PageKinds(ss.fd.pages)
    IN Input("safari", ok,
             IF ok THEN [i \in 1..Len(kinds) |->
                            SafariExpiry(DoubleBytes(RecordFields(kinds[i]).exp)).raised]
             ELSE <<>>)

RECURSIVE ProfileRows(_)
\* the rows of the profiles that can be read, in profile order
ProfileRows(profiles) ==
    IF profiles = <<>> THEN <<>>
    ELSE (IF profiles[1].hasfile /\ profiles[1].file.status = "ok"
             /\ profiles[1].file.content.table # "none"
          THEN profiles[1].file.content.rows ELSE <<>>)
         \o ProfileRows(Tail(profiles))

FirefoxInput(base, tz) ==
    LET rows == IF base.exists THEN ProfileRows(base.profiles) ELSE <<>>
    IN Input("firefox", rows # <<>>,
             [i \in 1..Len(rows) |-> FirefoxExpiry(rows[i].expiry, tz).raised])

-----------------------------------------------------------------------------
(* main *)

SameCookie(a, b) == a.domain = b.domain /\ a.name = b.name /\ a.path = b.path

\* an aggregation that keeps one record per (domain, name, path)
ExtendMerging(all, cookies) ==
    all \o SelectSeq(cookies, LAMBDA c : \A i \in 1..Len(all) : ~SameCookie(all[i], c))

\* all_cookies.extend(cookies)
Extend(all, cookies) == all \o cookies

\* one entry of the history of export calls
Returned(source, cookies) == [source |-> source, cookies |-> cookies]

InitMain ==
    /\ DecryptIdle /\ PageIdle /\ SafariIdle /\ ParIdle
    /\ SYSTEM \in Systems
    /\ env \in Environs(SYSTEM)
    /\ browsers \in BrowserLists
    /\ pcm = "chromium" /\ bi = 1
    /\ all_cookies = <<>> /\ exported = <<>> /\ files = {}
    /\ returned = <<>> /\ lastIn = NoInput

\* one pass of `for browser in browsers`; an exception of the call leaves main
MainChromium ==
    /\ pcm = "chromium" /\ bi <= Len(browsers)
    /\ \E st \in ChromeStores :
          \E o \in {export_chromium_cookies(browsers[bi], st, SYSTEM, env, files)} :
             /\ lastIn' = ChromiumInput(st, SYSTEM, env)
             /\ files' = o.files
             /\ IF o.raised
                THEN /\ pcm' = "crashed"
                     /\ UNCHANGED <<bi, all_cookies, returned>>
                ELSE /\ pcm' = pcm
                     /\ bi' = bi + 1
                     /\ all_cookies' = IF o.val # <<>> THEN Extend(all_cookies, o.val) ELSE all_cookies
                     /\ returned' = Append(returned, Returned("chromium", o.val))
    /\ UNCHANGED <<SYSTEM, decVars, pageVars, safVars, parVars, browsers, env, exported>>

\* the loop is over: Safari on Darwin, Firefox elsewhere
MainChromiumDone ==
    /\ pcm = "chromium" /\ bi > Len(browsers)
    /\ pcm' = IF SYSTEM = "Darwin" THEN "safari" ELSE "firefox"
    /\ UNCHANGED <<SYSTEM, decVars, pageVars, safVars, parVars, browsers, env, bi, all_cookies,
                   exported, files, returned, lastIn>>

MainSafari ==
    /\ pcm = "safari"
    /\ \E ss \in SafariStores :
          \E r \in {export_safari_cookies(SYSTEM, SafariFileOf(ss))} :
             /\ lastIn' = SafariInput(ss)
             /\ IF r.raised
                THEN /\ pcm' = "crashed"
                     /\ UNCHANGED <<all_cookies, returned>>
                ELSE /\ pcm' = "firefox"
                     /\ all_cookies' = IF r.val # <<>> THEN Extend(all_cookies, r.val) ELSE all_cookies
                     /\ returned' = Append(returned, Returned("safari", r.val))
    /\ UNCHANGED <<SYSTEM, decVars, pageVars, safVars, parVars, browsers, env, bi, exported, files>>

MainFirefox ==
    /\ pcm = "firefox"
    /\ \E base \in FirefoxBases, tz \in TzOffsets :
          \E o \in {export_firefox_cookies(base, tz, files)} :
             /\ lastIn' = FirefoxInput(base, tz)
             /\ files' = o.files
             /\ IF o.raised
                THEN /\ pcm' = "crashed"
                     /\ UNCHANGED <<all_cookies, returned>>
                ELSE /\ pcm' = "export"
                     /\ all_cookies' = IF o.val # <<>> THEN Extend(all_cookies, o.val) ELSE all_cookies
                     /\ returned' = Append(returned, Returned("firefox", o.val))
    /\ UNCHANGED <<SYSTEM, decVars, pageVars, safVars, parVars, browsers, env, bi, exported>>

\* the CSV step: writer.writerows(all_cookies) when there is anything to write
MainExport ==
    /\ pcm = "export"
    /\ exported' = IF all_cookies # <<>> THEN all_cookies ELSE exported
    /\ pcm' = "done"
    /\ UNCHANGED <<SYSTEM, decVars, pageVars, safVars, parVars, browsers, env, bi, all_cookies,
                   files, returned, lastIn>>

NextMain == MainChromium \/ MainChromiumDone \/ MainSafari \/ MainFirefox \/ MainExport

SpecMain == InitMain /\ [][NextMain]_vars

-----------------------------------------------------------------------------
(* Claims about main *)

RECURSIVE Concatenation(_)
\* the record sequences of a call history, one after the other
Concatenation(rs) == IF rs = <<>> THEN <<>> ELSE rs[1].cookies \o Concatenation(Tail(rs))

\* the sources main calls, in the order the claim gives
SourceOrder ==
    [k \in 1..Len(browsers) |-> "chromium"]
    \o (IF SYSTEM = "Darwin" THEN <<"safari">> ELSE <<>>)
    \o <<"firefox">>

\* the source tag the records of the k-th call carry
SourceTag(k) ==
    IF returned[k].source = "chromium" THEN browsers[k]
    ELSE IF returned[k].source = "safari" THEN StrSafari
    ELSE StrFirefox

\* C8: the aggregated sequence is the concatenation of what the calls
\* returned, the calls being the Chromium stores in discovery order, then
\* Safari, then Firefox; every record carries the tag of its source; nothing
\* is removed or merged; and the export step writes that sequence.
C8_AggregateIsConcatenation ==
    /\ all_cookies = Concatenation(returned)
    /\ Len(returned) <= Len(SourceOrder)
    /\ \A k \in 1..Len(returned) :
          /\ returned[k].source = SourceOrder[k]
          /\ \A i \in 1..Len(returned[k].cookies) : returned[k].cookies[i].browser = SourceTag(k)
    /\ pcm \in {"export", "done"} => Len(returned) = Len(SourceOrder)
    /\ pcm = "done" => exported = all_cookies

\* a finished run on Darwin in which two Chromium stores, Safari and Firefox
\* all returned records, and two records of different sources have the same
\* (domain, name, path)
C8_Witness ==
    /\ pcm = "done" /\ SYSTEM = "Darwin" /\ Len(browsers) = 2
    /\ Len(returned) = 4
    /\ \A k \in 1..4 : returned[k].cookies # <<>>
    /\ \E i, j \in 1..Len(exported) :
          i < j /\ SameCookie(exported[i], exported[j])
                /\ exported[i].browser # exported[j].browser

\* C6 as stated: a stored expiry whose conversion fails gives a record whose
\* expires is "Unknown"; the record is emitted and the other records of the
\* store are processed, so a readable store returns one record per stored
\* row, in stored order.
C6_FailedExpiryGivesUnknown ==
    (pcm # "crashed" /\ lastIn.readable) =>
        LET out == returned[Len(returned)].cookies
        IN /\ Len(out) = Len(lastIn.fails)
           /\ \A i \in 1..Len(out) : lastIn.fails[i] => out[i].expires = StrUnknown

\* C9 as stated: no per-source export call raises, so main is never left
\* before the export step.
C9_NoSourceAborts == pcm # "crashed"

-----------------------------------------------------------------------------
(* The per-store export steps of two stores run as two workers: each worker
   copies its store to the temporary path, reads the copy, and removes it,
   and the steps of the two interleave freely *)

Workers == {1, 2}

\* the store a worker exports: a Chromium browser or a Firefox profile
Job(kind, name, store, tz) == [kind |-> kind, name |-> name, store |-> store, tz |-> tz]

Jobs ==
    {Job("chromium", n, st, 0) : n \in BrowserNames, st \in ChromeStores}
    \cup {Job("firefox", StrFirefox, pr, tz) : pr \in Profiles, tz \in TzOffsets}

\* temp_db of the job
JobPath(j, sys, e) == IF j.kind = "chromium" THEN TempDbPath(sys, j.name, e) ELSE Ret(FirefoxTempDb)

\* what the job returns when nothing else runs
Alone(j, sys, e) ==
    LET o == IF j.kind = "chromium" THEN export_chromium_cookies(j.name, j.store, sys, e, {})
             ELSE export_firefox_cookies(FirefoxBase(TRUE, <<j.store>>), j.tz, {})
    IN [raised |-> o.raised, val |-> o.val, exc |-> o.exc]

\* the early returns before the copy, and shutil.copy2: the step the worker
\* goes to, what it holds as its result, and the files
CopyStep(j, sys, e, fs) ==
    LET path == JobPath(j, sys, e) IN
    IF j.kind = "chromium" THEN
        IF ~j.store.present THEN <<"done", Ret(<<>>), fs>>
        ELSE IF get_encryption_key(sys, j.store.secret) = <<>> THEN <<"done", Ret(<<>>), fs>>
        ELSE IF path.raised THEN <<"done", path, fs>>
        ELSE IF j.store.file.status # "ok" THEN <<"done", Ret(<<>>), fs>>
        ELSE <<"read", Ret(<<>>), WriteFile(fs, path.val, j.store.file.content)>>
    ELSE
        IF ~j.store.hasfile THEN <<"done", Ret(<<>>), fs>>
        ELSE IF j.store.file.status # "ok" THEN <<"remove", Ret(<<>>), fs>>
        ELSE <<"read", Ret(<<>>), WriteFile(fs, path.val, j.store.file.content)>>

\* sqlite3.connect(temp_db), which creates the file when it is not there,
\* the query and the row loop
ReadStep(j, sys, e, fs) ==
    LET path == JobPath(j, sys, e).val
        db == OpenDb(fs, path)
        cookies == IF j.kind = "chromium"
                   THEN ReadChromiumDb(db, j.name, get_encryption_key(sys, j.store.secret), sys)
                   ELSE ReadFirefoxDb(db, j.tz)
    IN <<"remove", Ret(cookies), IF Exists(fs, path) THEN fs ELSE WriteFile(fs, path, db)>>

\* finally: os.remove(temp_db)
RemoveStep(j, sys, e, fs) == RemoveFile(fs, JobPath(j, sys, e).val)

\* the other worker has copied and not yet removed
Holding(w) == wpc[w] \in {"read", "remove"}

Other(w) == 3 - w

InitPar ==
    /\ DecryptIdle /\ PageIdle /\ SafariIdle
    /\ SYSTEM \in Systems
    /\ env \in Environs(SYSTEM)
    /\ browsers = <<>> /\ pcm = "idle" /\ bi = 1
    /\ all_cookies = <<>> /\ exported = <<>> /\ files = {}
    /\ returned = <<>> /\ lastIn = NoInput
    /\ jobs \in [Workers -> Jobs]
    /\ wpc = [w \in Workers |-> "copy"]
    /\ wres = [w \in Workers |-> NoRet]
    /\ overlapped = FALSE

WorkerCopy(w) ==
    /\ wpc[w] = "copy"
    /\ \E step \in {CopyStep(jobs[w], SYSTEM, env, files)} :
          /\ wpc' = [wpc EXCEPT ![w] = step[1]]
          /\ wres' = [wres EXCEPT ![w] = step[2]]
          /\ files' = step[3]
          /\ overlapped' = (overlapped \/ (step[1] = "read" /\ Holding(Other(w))))
    /\ UNCHANGED <<SYSTEM, decVars, pageVars, safVars, browsers, env, pcm, bi, all_cookies,
                   exported, returned, lastIn, jobs>>

WorkerRead(w) ==
    /\ wpc[w] = "read"
    /\ \E step \in {ReadStep(jobs[w], SYSTEM, env, files)} :
          /\ wpc' = [wpc EXCEPT ![w] = step[1]]
          /\ wres' = [wres EXCEPT ![w] = step[2]]
          /\ files' = step[3]
    /\ overlapped' = (overlapped \/ Holding(Other(w)))
    /\ UNCHANGED <<SYSTEM, decVars, pageVars, safVars, browsers, env, pcm, bi, all_cookies,
                   exported, returned, lastIn, jobs>>

WorkerRemove(w) ==
    /\ wpc[w] = "remove"
    /\ files' = RemoveStep(jobs[w], SYSTEM, env, files)
    /\ wpc' = [wpc EXCEPT ![w] = "done"]
    /\ overlapped' = (overlapped \/ Holding(Other(w)))
    /\ UNCHANGED <<SYSTEM, decVars, pageVars, safVars, browsers, env, pcm, bi, all_cookies,
                   exported, returned, lastIn, jobs, wres>>

NextPar == \E w \in Workers : WorkerCopy(w) \/ WorkerRead(w) \/ WorkerRemove(w)

SpecPar == InitPar /\ [][NextPar]_vars

-----------------------------------------------------------------------------
(* Claims about parallel per-store work *)

\* both workers have returned
BothDone == \A w \in Workers : wpc[w] = "done"

\* C7 as stated: for every interleaving, each worker returns exactly what
\* its job returns when run alone.
C7_WorkersIndependent ==
    \A w \in Workers : wpc[w] = "done" => wres[w] = Alone(jobs[w], SYSTEM, env)

\* the two stores have different temporary files: one is a Chromium browser
\* and the other a Firefox profile, or both are Chromium browsers whose
\* display names differ once spaces are replaced by underscores
DistinctTempFiles ==
    \/ jobs[1].kind # jobs[2].kind
    \/ /\ jobs[1].kind = "chromium" /\ jobs[2].kind = "chromium"
       /\ ReplaceSpaces(jobs[1].name) # ReplaceSpaces(jobs[2].name)

\* C7 amended: two stores with different temporary files do not interfere;
\* each worker returns what its job returns alone, for every interleaving.
C7_DistinctTempFilesIndependent ==
    DistinctTempFiles => C7_WorkersIndependent

\* two Chromium browsers of different names, both copied and read while the
\* other held its temporary file, both returned records
C7_Witness ==
    /\ BothDone /\ overlapped /\ DistinctTempFiles
    /\ \A w \in Workers : jobs[w].kind = "chromium" /\ ~wres[w].raised /\ wres[w].val # <<>>
    /\ jobs[1].store # jobs[2].store

=============================================================================
